---- MODULE Spec2Model ----
(***************************************************************************)
(* tiny-spark: a command-line client over the Breez SDK wallet runtime.    *)
(* One process invocation runs main (src/main.go): load the configuration, *)
(* connect the wallet (wallet.NewWallet), dispatch one command to the      *)
(* wallet facade (src/unnamed/part_000, package wallet), render, exit.     *)
(* The backend (Breez SDK) is external: every call to it is logged in      *)
(* `calls` with its outcome, which the model chooses nondeterministically. *)
(* The backend's payment history `payments` outlives a process; so does    *)
(* `listed`, the last list of transactions a ListPayments call returned.   *)
(***************************************************************************)
EXTENDS Integers, Sequences, FiniteSets, TLC

\* Most payments the backend holds.
MaxPayments == 1

\* How often a caller closes one wallet.
MaxCloses == 2

(***************************************************************************)
(* Vocabulary of the inputs                                                *)
(***************************************************************************)
Prog == "tiny-spark"

\* Decimal texts of the command lines and the integers they denote.
NumText == ("-1" :> -1) @@ ("0" :> 0) @@ ("2" :> 2) @@ ("5" :> 5) @@ ("9" :> 9) @@ ("10" :> 10)

\* strconv.Atoi / strconv.ParseInt(s, 10, 64): a decimal text gives its value,
\* anything else an error.
ParseInt(s) ==
  IF s \in DOMAIN NumText THEN [ok |-> TRUE, val |-> NumText[s]]
                          ELSE [ok |-> FALSE, val |-> 0]

Atoi(s) == ParseInt(s)

\* strconv.ParseUint(s, 10, 64): as ParseInt, and a sign is a syntax error.
ParseUint(s) ==
  IF s \in DOMAIN NumText /\ NumText[s] >= 0 THEN [ok |-> TRUE, val |-> NumText[s]]
                                             ELSE [ok |-> FALSE, val |-> 0]

\* strings.ToLower on the vocabulary of payment types.
UpperTypes == ("BTC" :> "btc") @@ ("Spark" :> "spark")

ToLower(s) == IF s \in DOMAIN UpperTypes THEN UpperTypes[s] ELSE s

\* uint32(limit) of a Go int: the value modulo 2^32, held as two 16-bit halves
\* (the model checker's integers are 32-bit signed).
Half == 2 ^ 16

Uint32(n) == [hi |-> (n \div Half) % Half, lo |-> n % Half]

\* u < k for a uint32 u and a small k (0 <= k < 2^16).
Uint32Less(u, k) == u.hi = 0 /\ u.lo < k

\* the smaller of a uint32 and a small natural
Uint32Min(u, k) == IF u.hi = 0 /\ u.lo < k THEN u.lo ELSE k

(***************************************************************************)
(* The backend's data                                                      *)
(***************************************************************************)
PaymentIds == <<"p1", "p2", "p3", "p4">>

PaymentTypes == {"Send", "Receive", "Other"}

PaymentStatuses == {"Completed", "Pending", "Failed"}

RawAmounts == {-5, 0, 5}

RawFees == {1}

PaymentPool ==
  [PaymentType : PaymentTypes, Status : PaymentStatuses, Amount : RawAmounts, Fees : RawFees]

\* A backend history: payment i carries the id PaymentIds[i].
Backends ==
  UNION { { [i \in 1..n |-> [Id |-> PaymentIds[i], PaymentType |-> f[i].PaymentType,
                             Status |-> f[i].Status, Amount |-> f[i].Amount,
                             Fees |-> f[i].Fees]] : f \in [1..n -> PaymentPool] }
          : n \in 0..MaxPayments }

TokenIds == {"t1", "t2"}

TokenAmounts == {0, 3}

\* GetInfoResponse: the primary balance and the per-token balances (a Go map).
InfoPool ==
  { [BalanceSats |-> b, TokenBalances |-> tb] :
      b \in {0, 7},
      tb \in UNION { [ids -> TokenAmounts] : ids \in SUBSET TokenIds } }

\* The environment of a process ("" for a variable that is not set).
EnvPool ==
  [BREEZ_API_KEY : {"", "key"}, BREEZ_MNEMONIC : {"", "words"},
   BREEZ_NETWORK : {"", "mainnet", "testnet", "Mainnet"},
   BREEZ_WORKING_DIR : {""}, BREEZ_DATA_DIR : {""}]

(***************************************************************************)
(* State                                                                   *)
(***************************************************************************)
VARIABLES
  pc,        \* where the process is
  args,      \* os.Args
  env,       \* the environment variables LoadConfig read
  cfg,       \* *config.Config of LoadConfig
  workdir,   \* what createWorkingDir did: untouched, prepared, failed
  w,         \* the *wallet.Wallet of main
  conn,      \* the backend connection: unconnected, connected, disconnected
  calls,     \* the backend calls this process issued, in order
  closes,    \* how often Wallet.Close ran in this process
  out,       \* what the command produced
  exit,      \* how the process ended: running, return, fatal, panic
  payments,  \* the backend's payment history
  listed     \* the transactions the last successful GetTransactions returned

vars == <<pc, args, env, cfg, workdir, w, conn, calls, closes, out, exit, payments, listed>>

\* Before LoadConfig has read the environment.
NoEnv ==
  [BREEZ_API_KEY |-> "unread", BREEZ_MNEMONIC |-> "unread", BREEZ_NETWORK |-> "unread",
   BREEZ_WORKING_DIR |-> "unread", BREEZ_DATA_DIR |-> "unread"]

NoConfig == [BreezAPIKey |-> "", BreezMnemonic |-> "", BreezNetwork |-> "", BreezWorkingDir |-> ""]

NoWallet == [sdk |-> "nil"]

NoOutput == [kind |-> "none"]

\* os.Args[k]
Arg(k) == args[k + 1]

Init ==
  /\ pc = "idle"
  /\ args = <<>>
  /\ env = NoEnv
  /\ cfg = NoConfig
  /\ workdir = "untouched"
  /\ w = NoWallet
  /\ conn = "unconnected"
  /\ calls = <<>>
  /\ closes = 0
  /\ out = NoOutput
  /\ exit = "running"
  /\ payments \in Backends
  /\ listed = <<>>

(***************************************************************************)
(* The command lines tried                                                 *)
(***************************************************************************)
LimitTexts == {"0", "2", "9", "10", "-1", "many"}

ReceiveTypes == {"lightning", "BTC", "spark", "cash"}

SendTypes == {"lightning", "bitcoin", "Spark", "lnurl", "cash"}

AmountTexts == {"5", "lots"}

Destinations == {"dest"}

ArgLines ==
  {<<Prog>>}
  \cup {<<Prog, c>> : c \in {"balance", "transactions", "receive", "send", "payment",
                            "tokens", "help", "frobnicate"}}
  \cup {<<Prog, "transactions", n>> : n \in LimitTexts}
  \cup {<<Prog, "receive", "BTC">>}
  \cup {<<Prog, "receive", t, a>> : t \in ReceiveTypes, a \in AmountTexts}
  \cup {<<Prog, "receive", t, "0">> : t \in {"lightning", "BTC"}}
  \cup {<<Prog, "receive", "lightning", "-1">>, <<Prog, "receive", "lightning", "5", "coffee">>,
        <<Prog, "receive", "lightning", "2", "tea">>}
  \cup {<<Prog, "send", "lightning", d>> : d \in Destinations}
  \cup {<<Prog, "send", t, d, a>> : t \in SendTypes, d \in Destinations, a \in AmountTexts}
  \cup {<<Prog, "send", "lnurl", d, "-1">> : d \in Destinations}
  \cup {<<Prog, "payment", PaymentIds[i]>> : i \in 1..(MaxPayments + 1)}

(***************************************************************************)
(* Leaving the process                                                     *)
(***************************************************************************)
\* log.Fatalf: print and os.Exit(1); deferred calls do not run.
Fatalf(msg) ==
  /\ pc' = "exited"
  /\ exit' = "fatal"
  /\ out' = [kind |-> "error", msg |-> msg]

\* A backend call and its outcome, appended to the log.
Issue(call) == calls' = Append(calls, call)

(***************************************************************************)
(* main                                                                    *)
(***************************************************************************)
\* A process starts on a command line.
Invoke ==
  /\ pc = "idle"
  /\ \E argv \in ArgLines : args' = argv
  /\ pc' = "main"
  /\ UNCHANGED <<env, cfg, workdir, w, conn, calls, closes, out, exit, payments, listed>>

\* The process is gone, and with it its memory and its connection; the
\* backend's history and what the user was shown remain.
Shell ==
  /\ pc = "exited"
  /\ pc' = "idle"
  /\ args' = <<>>
  /\ env' = NoEnv
  /\ cfg' = NoConfig
  /\ workdir' = "untouched"
  /\ w' = NoWallet
  /\ conn' = "unconnected"
  /\ calls' = <<>>
  /\ closes' = 0
  /\ out' = NoOutput
  /\ exit' = "running"
  /\ UNCHANGED <<payments, listed>>

\* main, lines 17-22: without a command, print the usage and return.
Main ==
  /\ pc = "main"
  /\ IF Len(args) < 2
       THEN /\ pc' = "exited"
            /\ exit' = "return"
            /\ out' = [kind |-> "usage"]
       ELSE /\ pc' = "loadConfig"
            /\ UNCHANGED <<exit, out>>
  /\ UNCHANGED <<args, env, cfg, workdir, w, conn, calls, closes, payments, listed>>

\* config.getEnv
getEnv(value, defaultValue) == IF value # "" THEN value ELSE defaultValue

\* config.LoadConfig: the Config it builds from the environment.
ConfigOf(e) ==
  [BreezAPIKey     |-> getEnv(e.BREEZ_API_KEY, ""),
   BreezMnemonic   |-> getEnv(e.BREEZ_MNEMONIC, ""),
   BreezNetwork    |-> getEnv(e.BREEZ_NETWORK, "mainnet"),
   BreezWorkingDir |-> getEnv(e.BREEZ_WORKING_DIR,
                              getEnv(e.BREEZ_DATA_DIR, ".tiny-spark-data"))]

\* ConfigValid without the check of the mnemonic.
ConfigValidKeyOnly(c) == c.BreezAPIKey # ""

\* config.LoadConfig: the required fields.
ConfigValid(c) == c.BreezAPIKey # "" /\ c.BreezMnemonic # ""

\* main, lines 25-28.
LoadConfig ==
  /\ pc = "loadConfig"
  /\ \E e \in EnvPool :
       /\ env' = e
       /\ IF ConfigValid(ConfigOf(e))
            THEN /\ cfg' = ConfigOf(e)
                 /\ pc' = "newWallet"
                 /\ UNCHANGED <<exit, out>>
            ELSE /\ Fatalf("Failed to load configuration")
                 /\ UNCHANGED cfg
  /\ UNCHANGED <<args, workdir, w, conn, calls, closes, payments, listed>>

\* networkFromString with mainnet as the network of the unknown names.
networkFromStringLoose(network) == IF network = "testnet" THEN "Regtest" ELSE "Mainnet"

\* wallet.networkFromString
networkFromString(network) ==
  CASE network = "mainnet" -> "Mainnet"
    [] network = "testnet" -> "Regtest"
    [] OTHER               -> "Regtest"

\* ConnectedWallet with the error of the connect ignored.
ConnectedWalletAlways(ok) == TRUE

\* wallet.NewWallet, lines 91-96: a wallet only when the connect succeeded.
ConnectedWallet(ok) == ok

\* main, lines 31-35, and wallet.NewWallet: prepare the working directory, connect.
NewWallet ==
  /\ pc = "newWallet"
  /\ \E dirOk \in BOOLEAN, ok \in BOOLEAN :
       IF cfg.BreezWorkingDir = "" \/ ~dirOk
         THEN /\ workdir' = "failed"
              /\ Fatalf("Failed to initialize wallet")
              /\ UNCHANGED <<w, conn, calls>>
         ELSE /\ workdir' = "prepared"
              /\ Issue([op |-> "connect", ok |-> ok,
                        network |-> networkFromString(cfg.BreezNetwork),
                        apiKey |-> cfg.BreezAPIKey, mnemonic |-> cfg.BreezMnemonic])
              /\ IF ConnectedWallet(ok)
                   THEN /\ w' = [sdk |-> "sdk"]
                        /\ conn' = IF ok THEN "connected" ELSE conn
                        /\ pc' = "dispatch"
                        /\ UNCHANGED <<exit, out>>
                   ELSE /\ Fatalf("Failed to initialize wallet")
                        /\ UNCHANGED <<w, conn>>
  /\ UNCHANGED <<args, env, cfg, closes, payments, listed>>

\* main, lines 39-77: where the switch on the command goes.
DispatchTarget(argv) ==
  LET command == argv[2] IN
  CASE command \in {"balance", "bal"}     -> "showBalance"
    [] command \in {"transactions", "tx"} -> "showTransactions"
    [] command = "receive" ->
         IF Len(argv) < 4 THEN "return" ELSE "receivePayment"
    [] command = "send" ->
         IF Len(argv) < 4 THEN "return"
         ELSE IF Len(argv) < 5 THEN "panic"   \* os.Args[4]: index out of range
         ELSE "sendPayment"
    [] command = "payment" ->
         IF Len(argv) < 3 THEN "return" ELSE "showPayment"
    [] command = "tokens"  -> "showTokens"
    [] OTHER               -> "return"        \* help, and the unknown commands

Dispatch ==
  /\ pc = "dispatch"
  /\ pc' = DispatchTarget(args)
  /\ out' = IF DispatchTarget(args) = "return" THEN [kind |-> "usage"] ELSE out
  /\ UNCHANGED <<args, env, cfg, workdir, w, conn, calls, closes, exit, payments, listed>>

\* Wallet.Close: disconnect when there is an sdk. The sdk field is left as
\* it is.
WalletClose ==
  /\ closes' = closes + 1
  /\ IF w.sdk # "nil"
       THEN \E ok \in BOOLEAN :
              /\ Issue([op |-> "disconnect", ok |-> ok])
              /\ conn' = IF ok THEN "disconnected" ELSE conn
       ELSE UNCHANGED <<calls, conn>>

\* Wallet.Close, as the deferred call of main runs it: when main returns, or
\* when it panics.
Close ==
  /\ pc \in {"return", "panic"}
  /\ WalletClose
  /\ pc' = "exited"
  /\ exit' = pc
  /\ UNCHANGED <<args, env, cfg, workdir, w, out, payments, listed>>

(***************************************************************************)
(* balance                                                                 *)
(***************************************************************************)
\* Wallet.GetBalance, lines 127-139: the balances it may return. The token
\* balances are a Go map, whose iteration order is not specified: the first
\* positive balance found is any positive one.
GetBalanceSats(info) ==
  LET tb == info.TokenBalances
      positive == {t \in DOMAIN tb : tb[t] > 0}
  IN IF positive # {} THEN {tb[t] : t \in positive} ELSE {info.BalanceSats}

\* showBalance and Wallet.GetBalance.
ShowBalance ==
  /\ pc = "showBalance"
  /\ \E ok \in BOOLEAN, info \in InfoPool :
       /\ Issue([op |-> "getInfo", ok |-> ok, response |-> info])
       /\ IF ok
            THEN /\ \E b \in GetBalanceSats(info) :
                      out' = [kind |-> "balance", LightningBalanceSats |-> b,
                              MaxPayableSats |-> b, MaxReceivableSats |-> b]
                 /\ pc' = "return"
                 /\ UNCHANGED exit
            ELSE Fatalf("Failed to get balance")
  /\ UNCHANGED <<args, env, cfg, workdir, w, conn, closes, payments, listed>>

(***************************************************************************)
(* transactions, payment                                                   *)
(***************************************************************************)
\* GetTransactions and GetPayment: the readable payment status.
StatusStr(status) ==
  CASE status = "Pending"   -> "Pending"
    [] status = "Completed" -> "Complete"
    [] status = "Failed"    -> "Failed"
    [] OTHER                -> status

\* ListClassify with the type tag ignored: the sign of the amount decides.
ListClassifyBySign(payment) ==
  IF payment.Amount > 0 THEN [Type |-> "receive", AmountSats |-> payment.Amount]
                        ELSE [Type |-> "send", AmountSats |-> payment.Amount]

\* GetTransactions, lines 171-197: the type and the amount of a transaction.
ListClassify(payment) ==
  LET rawAmount == payment.Amount IN
  CASE payment.PaymentType = "Receive" -> [Type |-> "receive", AmountSats |-> rawAmount]
    [] payment.PaymentType = "Send"    -> [Type |-> "send", AmountSats |-> -rawAmount]
    [] OTHER ->
         IF rawAmount > 0 THEN [Type |-> "receive", AmountSats |-> rawAmount]
                          ELSE [Type |-> "send", AmountSats |-> rawAmount]

\* GetTransactions, lines 169-225: the Transaction of a backend payment.
ListTransaction(payment) ==
  [ID          |-> payment.Id,
   AmountSats  |-> ListClassify(payment).AmountSats,
   FeeSats     |-> payment.Fees,
   Status      |-> StatusStr(payment.Status),
   Type        |-> ListClassify(payment).Type,
   Description |-> "Payment",
   PaymentHash |-> payment.Id]

\* GetPayment, lines 411-441: the Transaction of a backend payment.
GetPaymentTransaction(payment) ==
  [ID          |-> payment.Id,
   AmountSats  |-> payment.Amount,
   FeeSats     |-> payment.Fees,
   Status      |-> StatusStr(payment.Status),
   Type        |-> IF payment.Amount > 0 THEN "receive" ELSE "send",
   Description |-> "Payment",
   PaymentHash |-> payment.Id]

\* main, lines 43-48: the limit of the transactions command.
LimitOf(argv) ==
  IF Len(argv) > 2 /\ Atoi(argv[3]).ok THEN Atoi(argv[3]).val ELSE 10

\* ListPaymentsRequest without the floor of 10.
ListPaymentsRequestNoFloor(limit) == [Offset |-> Uint32(0), Limit |-> Uint32(limit)]

\* GetTransactions, lines 150-160: the request sent to the backend.
ListPaymentsRequest(limit) ==
  [Offset |-> Uint32(0),
   Limit  |-> IF Uint32Less(Uint32(limit), 10) THEN Uint32(100) ELSE Uint32(limit)]

\* The backend's ListPayments: the page of the history the request asks for.
ListPaymentsResponse(req) ==
  SubSeq(payments, 1, Uint32Min(req.Limit, Len(payments)))

\* showTransactions, lines 136-158: the rows printed for the transactions
\* the facade returned.
Rendered(transactions, limit) == transactions

\* showTransactions and Wallet.GetTransactions.
ShowTransactions ==
  /\ pc = "showTransactions"
  /\ LET limit == LimitOf(args)
         req == ListPaymentsRequest(limit)
         response == ListPaymentsResponse(req)
         transactions == [i \in 1..Len(response) |-> ListTransaction(response[i])]
     IN \E ok \in BOOLEAN :
          /\ Issue([op |-> "listPayments", ok |-> ok, req |-> req])
          /\ IF ok
               THEN /\ listed' = transactions
                    /\ out' = [kind |-> "transactions", limit |-> limit,
                               transactions |-> transactions,
                               rows |-> Rendered(transactions, limit)]
                    /\ pc' = "return"
                    /\ UNCHANGED exit
               ELSE /\ Fatalf("Failed to get transactions")
                    /\ UNCHANGED listed
  /\ UNCHANGED <<args, env, cfg, workdir, w, conn, closes, payments>>

\* The backend's GetPayment: the payments of the history with this id.
Stored(id) == {i \in 1..Len(payments) : payments[i].Id = id}

\* showPayment and Wallet.GetPayment.
ShowPayment ==
  /\ pc = "showPayment"
  /\ LET paymentID == Arg(2) IN
     \E ok \in BOOLEAN :
       /\ ok => Stored(paymentID) # {}
       /\ Issue([op |-> "getPayment", ok |-> ok, PaymentId |-> paymentID])
       /\ IF ok
            THEN /\ \E i \in Stored(paymentID) :
                      out' = [kind |-> "payment",
                              payment |-> GetPaymentTransaction(payments[i])]
                 /\ pc' = "return"
                 /\ UNCHANGED exit
            ELSE Fatalf("Failed to get payment")
  /\ UNCHANGED <<args, env, cfg, workdir, w, conn, closes, payments, listed>>

(***************************************************************************)
(* tokens                                                                  *)
(***************************************************************************)
\* showTokens and Wallet.GetTokenBalances.
ShowTokens ==
  /\ pc = "showTokens"
  /\ \E ok \in BOOLEAN, info \in InfoPool :
       /\ Issue([op |-> "getInfo", ok |-> ok, EnsureSynced |-> FALSE])
       /\ IF ok
            THEN /\ out' = [kind |-> "tokens",
                            tokens |-> {[TokenID |-> t, Balance |-> info.TokenBalances[t]] :
                                          t \in DOMAIN info.TokenBalances}]
                 /\ pc' = "return"
                 /\ UNCHANGED exit
            ELSE Fatalf("Failed to get token balances")
  /\ UNCHANGED <<args, env, cfg, workdir, w, conn, closes, payments, listed>>

(***************************************************************************)
(* receive                                                                 *)
(***************************************************************************)
\* main, line 56: strings.Join(os.Args[4:], " "), for at most one word.
DescriptionOf(argv) == IF Len(argv) > 4 THEN argv[5] ELSE ""

\* receivePayment, lines 173-182: the backend request of a receive type
\* ("none" for an unknown type).
ReceiveMethod(paymentType) ==
  CASE ToLower(paymentType) \in {"lightning", "ln"} -> "Bolt11Invoice"
    [] ToLower(paymentType) \in {"bitcoin", "btc"}  -> "BitcoinAddress"
    [] ToLower(paymentType) = "spark"               -> "SparkAddress"
    [] OTHER                                        -> "none"

\* ReceiveLightningInvoice, ReceiveBitcoinAddress, ReceiveSparkAddress: the
\* request each sends.
ReceiveRequestOf(method, amountSats, description) ==
  IF method = "Bolt11Invoice"
    THEN [method |-> method, Description |-> description,
          AmountSats |-> [set |-> TRUE, val |-> amountSats]]
    ELSE [method |-> method, Description |-> "", AmountSats |-> [set |-> FALSE, val |-> 0]]

\* ReceiveResponseOf with the invoice reported like an address deposit.
ReceiveResponseAmountless(method, amountSats, description, response) ==
  [PaymentRequest |-> response.PaymentRequest, FeeSats |-> response.Fee,
   AmountSats |-> 0, Description |-> "Lightning deposit"]

\* ... and the ReceivePaymentResponse each builds from the backend's answer.
ReceiveResponseOf(method, amountSats, description, response) ==
  CASE method = "Bolt11Invoice" ->
         [PaymentRequest |-> response.PaymentRequest, FeeSats |-> response.Fee,
          AmountSats |-> amountSats, Description |-> description]
    [] method = "BitcoinAddress" ->
         [PaymentRequest |-> response.PaymentRequest, FeeSats |-> response.Fee,
          AmountSats |-> 0, Description |-> "Bitcoin address deposit"]
    [] OTHER ->
         [PaymentRequest |-> response.PaymentRequest, FeeSats |-> response.Fee,
          AmountSats |-> 0, Description |-> "Spark address deposit"]

\* receivePayment and the three Receive methods of the wallet.
ReceivePayment ==
  /\ pc = "receivePayment"
  /\ LET amount == ParseUint(Arg(3))
         description == IF DescriptionOf(args) = "" THEN "Payment request"
                                                   ELSE DescriptionOf(args)
         method == ReceiveMethod(Arg(2))
     IN IF ~amount.ok
          THEN /\ Fatalf("Invalid amount")
               /\ UNCHANGED calls
          ELSE IF method = "none"
          THEN /\ Fatalf("Unknown receive type")
               /\ UNCHANGED calls
          ELSE \E ok \in BOOLEAN, fee \in RawFees :
                 /\ Issue([op |-> "receivePayment", ok |-> ok,
                           req |-> ReceiveRequestOf(method, amount.val, description)])
                 /\ IF ok
                      THEN /\ out' = [kind |-> "receive",
                                      response |-> ReceiveResponseOf(method, amount.val, description,
                                                     [PaymentRequest |-> "request", Fee |-> fee])]
                           /\ pc' = "return"
                           /\ UNCHANGED exit
                      ELSE Fatalf("Failed to create payment request")
  /\ UNCHANGED <<args, env, cfg, workdir, w, conn, closes, payments, listed>>

(***************************************************************************)
(* send                                                                    *)
(***************************************************************************)
\* sendPayment, lines 201-224: the wallet method of a send type ("none" for
\* an unknown type).
SendMethod(paymentType) ==
  CASE ToLower(paymentType) \in {"lightning", "ln"} -> "lightning"
    [] ToLower(paymentType) \in {"bitcoin", "btc"}  -> "bitcoin"
    [] ToLower(paymentType) = "spark"               -> "spark"
    [] ToLower(paymentType) = "lnurl"               -> "lnurl"
    [] OTHER                                        -> "none"

\* sendPayment: the amount each method parses (lightning parses none).
SendAmount(method, amountStr) ==
  CASE method \in {"bitcoin", "spark"} -> ParseInt(amountStr)
    [] method = "lnurl"                -> ParseUint(amountStr)
    [] OTHER                           -> [ok |-> TRUE, val |-> 0]

\* SendLightningInvoice, SendBitcoinAddress, SendSparkAddress: the prepare
\* request (a lightning send leaves the amount to the invoice).
PrepareRequestOf(method, destination, amountSats) ==
  [PaymentRequest |-> destination,
   Amount |-> IF method = "lightning" THEN [set |-> FALSE, val |-> 0]
                                      ELSE [set |-> TRUE, val |-> amountSats]]

\* AfterPrepare with the error of the prepare call ignored.
AfterPrepareUnchecked(ok) == "execute"

\* ... the check of the prepare call's error: where the wallet goes next.
AfterPrepare(ok) == IF ok THEN "execute" ELSE "failed"

\* ... the send request.
SendRequestOf(method) ==
  [Options |-> IF method = "bitcoin" THEN "BitcoinAddress/Medium" ELSE "nil"]

\* ... and the PaymentResponse built from the payment the backend reports.
PaymentResponseOf(payment) ==
  [PaymentHash |-> payment.Id,
   AmountSats  |-> payment.Amount,
   FeeSats     |-> payment.Fees,
   Status      |-> payment.Status]

\* The payments a send or an LNURL payment may report back.
SentPool == [Id : {"p9"}, Amount : {-5, 5}, Fees : {0, 1}, Status : {"Completed"}]

\* LnUrlPay, line 447: the backend's Parse of the address.
InputTypes == {"LightningAddress", "LnurlPay", "Bolt11Invoice"}

\* AfterParse without the type switch: every parsed input is paid.
AfterParseAnyType(ok, inputType) == IF ok THEN "lnurlPrepare" ELSE "failed"

\* LnUrlPay, lines 448-453 and 487: the check of the parse, and the type switch.
AfterParse(ok, inputType) ==
  IF ~ok THEN "failed"
  ELSE IF inputType = "LightningAddress" THEN "lnurlPrepare"
  ELSE "failed"

\* LnUrlPay, lines 463-466: the check of the prepare call's error.
AfterLnurlPrepare(ok) == IF ok THEN "lnurlPay" ELSE "failed"

\* sendPayment, first part: the type switch, the amount, and the first backend
\* call of the wallet method (prepare; for lnurl, parse).
SendPayment ==
  /\ pc = "sendPayment"
  /\ LET method == SendMethod(Arg(2))
         destination == Arg(3)
         amount == SendAmount(method, Arg(4))
     IN IF method = "none"
          THEN /\ Fatalf("Unknown send type")
               /\ UNCHANGED calls
          ELSE IF ~amount.ok
          THEN /\ Fatalf("Invalid amount")
               /\ UNCHANGED calls
          ELSE IF method = "lnurl"
          THEN \E ok \in BOOLEAN, inputType \in InputTypes :
                 /\ Issue([op |-> "parse", ok |-> ok, input |-> destination,
                           inputType |-> inputType])
                 /\ IF AfterParse(ok, inputType) = "failed"
                      THEN Fatalf("Failed to send payment")
                      ELSE /\ pc' = AfterParse(ok, inputType)
                           /\ UNCHANGED <<exit, out>>
          ELSE \E ok \in BOOLEAN :
                 /\ Issue([op |-> "prepareSendPayment", ok |-> ok,
                           req |-> PrepareRequestOf(method, destination, amount.val)])
                 /\ IF AfterPrepare(ok) = "failed"
                      THEN Fatalf("Failed to send payment")
                      ELSE /\ pc' = AfterPrepare(ok)
                           /\ UNCHANGED <<exit, out>>
  /\ UNCHANGED <<args, env, cfg, workdir, w, conn, closes, payments, listed>>

\* The second backend call of SendLightningInvoice, SendBitcoinAddress and
\* SendSparkAddress, and the rest of sendPayment.
Execute ==
  /\ pc = "execute"
  /\ \E ok \in BOOLEAN, payment \in SentPool :
       /\ Issue([op |-> "sendPayment", ok |-> ok, req |-> SendRequestOf(SendMethod(Arg(2)))])
       /\ IF ok
            THEN /\ out' = [kind |-> "sent", response |-> PaymentResponseOf(payment)]
                 /\ pc' = "return"
                 /\ UNCHANGED exit
            ELSE Fatalf("Failed to send payment")
  /\ UNCHANGED <<args, env, cfg, workdir, w, conn, closes, payments, listed>>

\* LnUrlPay, lines 454-466: prepareLnurlPay.
LnurlPrepare ==
  /\ pc = "lnurlPrepare"
  /\ \E ok \in BOOLEAN :
       /\ Issue([op |-> "prepareLnurlPay", ok |-> ok,
                 req |-> [AmountSats |-> ParseUint(Arg(4)).val,
                          Comment |-> "Payment via LNURL",
                          ValidateSuccessActionUrl |-> TRUE]])
       /\ IF AfterLnurlPrepare(ok) = "failed"
            THEN Fatalf("Failed to send payment")
            ELSE /\ pc' = AfterLnurlPrepare(ok)
                 /\ UNCHANGED <<exit, out>>
  /\ UNCHANGED <<args, env, cfg, workdir, w, conn, closes, payments, listed>>

\* LnUrlPay, lines 468-484: lnurlPay, and the rest of sendPayment.
LnurlPay ==
  /\ pc = "lnurlPay"
  /\ \E ok \in BOOLEAN, payment \in SentPool :
       /\ Issue([op |-> "lnurlPay", ok |-> ok])
       /\ IF ok
            THEN /\ out' = [kind |-> "sent", response |-> PaymentResponseOf(payment)]
                 /\ pc' = "return"
                 /\ UNCHANGED exit
            ELSE Fatalf("Failed to send payment")
  /\ UNCHANGED <<args, env, cfg, workdir, w, conn, closes, payments, listed>>

Next ==
  \/ Invoke
  \/ Main
  \/ LoadConfig
  \/ NewWallet
  \/ Dispatch
  \/ Close
  \/ Shell
  \/ ShowBalance
  \/ ShowTransactions
  \/ ShowPayment
  \/ ShowTokens
  \/ ReceivePayment
  \/ SendPayment
  \/ Execute
  \/ LnurlPrepare
  \/ LnurlPay

Spec == Init /\ [][Next]_vars

(***************************************************************************)
(* The wallet in the hands of a caller that closes it more than once       *)
(***************************************************************************)
\* Wallet.Close called again where main has returned: on the wallet its
\* deferred Close has closed, or on a wallet that was never opened.
CloseAgain ==
  /\ pc = "exited"
  /\ exit \in {"return", "panic"}
  /\ closes < MaxCloses
  /\ WalletClose
  /\ UNCHANGED <<pc, args, env, cfg, workdir, w, out, exit, payments, listed>>

NextFacade == Next \/ CloseAgain

SpecFacade == Init /\ [][NextFacade]_vars

(***************************************************************************)
(* Properties                                                              *)
(***************************************************************************)
\* The positions of the calls of an operation in the log.
CallsOf(op) == {i \in 1..Len(calls) : calls[i].op = op}

\* C1: for every send method, sendPayment is issued only right after a
\* prepareSendPayment of the same process that succeeded; a failed prepare is
\* the last backend call of the process, which ends in failure.
C1_ExecuteOnlyAfterPrepare ==
  /\ \A i \in CallsOf("sendPayment") :
       i > 1 /\ calls[i - 1].op = "prepareSendPayment" /\ calls[i - 1].ok
  /\ \A i \in CallsOf("prepareSendPayment") :
       ~calls[i].ok => i = Len(calls) /\ exit = "fatal" /\ out.kind = "error"

\* C1, its case: an on-chain send was prepared, executed and reported.
C1_Witness ==
  /\ out.kind = "sent"
  /\ SendMethod(Arg(2)) = "bitcoin"
  /\ CallsOf("sendPayment") # {}

\* C2: in LnUrlPay, prepareLnurlPay is issued only right after a parse that
\* succeeded and gave a lightning address (the pay-request kind), lnurlPay only
\* right after a prepareLnurlPay that succeeded; a failed step, and a parse
\* to another kind, is the last backend call of the process, which ends in failure.
C2_LnurlStepsInOrder ==
  /\ \A i \in CallsOf("prepareLnurlPay") :
       /\ i > 1 /\ calls[i - 1].op = "parse" /\ calls[i - 1].ok
       /\ calls[i - 1].inputType = "LightningAddress"
  /\ \A i \in CallsOf("lnurlPay") :
       i > 1 /\ calls[i - 1].op = "prepareLnurlPay" /\ calls[i - 1].ok
  /\ \A i \in CallsOf("parse") :
       (~calls[i].ok \/ calls[i].inputType # "LightningAddress")
         => i = Len(calls) /\ exit = "fatal" /\ out.kind = "error"
  /\ \A i \in CallsOf("prepareLnurlPay") :
       ~calls[i].ok => i = Len(calls) /\ exit = "fatal" /\ out.kind = "error"

\* C2, its case: an address was parsed, prepared and paid.
C2_Witness ==
  /\ out.kind = "sent"
  /\ SendMethod(Arg(2)) = "lnurl"
  /\ CallsOf("parse") # {} /\ CallsOf("prepareLnurlPay") # {} /\ CallsOf("lnurlPay") # {}

\* C3: a process that connected has run Wallet.Close exactly once when it ends,
\* on every exit path.
C3_CloseOncePerConnect ==
  (pc = "exited" /\ w.sdk # "nil") => closes = 1

\* The backend payment a transaction was made from.
PaymentOf(transaction) == {j \in 1..Len(payments) : payments[j].Id = transaction.ID}

\* C4: the record GetPayment returns for an id that the last ListPayments
\* returned has the amount and the status of the listed record with that id.
C4_GetPaymentAgreesWithList ==
  out.kind = "payment" =>
    \A i \in 1..Len(listed) :
      listed[i].ID = out.payment.ID =>
        /\ listed[i].AmountSats = out.payment.AmountSats
        /\ listed[i].Status = out.payment.Status

\* C5: a listed transaction of a payment tagged receive is a receive and one of
\* a payment tagged send is a send, whatever the sign of the raw amount; with
\* another tag it is a receive when the raw amount is positive and a send
\* otherwise.
C5_DirectionFollowsTag ==
  \A i \in 1..Len(listed) : \A j \in PaymentOf(listed[i]) :
    /\ payments[j].PaymentType = "Receive" => listed[i].Type = "receive"
    /\ payments[j].PaymentType = "Send" => listed[i].Type = "send"
    /\ payments[j].PaymentType \notin {"Receive", "Send"} =>
         listed[i].Type = (IF payments[j].Amount > 0 THEN "receive" ELSE "send")

\* C5, its case: a payment tagged receive with a negative raw amount was listed.
C5_Witness ==
  \E i \in 1..Len(listed) : \E j \in PaymentOf(listed[i]) :
    payments[j].PaymentType = "Receive" /\ payments[j].Amount < 0

\* The sign convention of a payment record.
SignMatchesDirection(transaction) ==
  /\ transaction.Type = "receive" => transaction.AmountSats > 0
  /\ transaction.Type = "send" => transaction.AmountSats < 0

\* C6: every record ListPayments or GetPayment returned has a positive amount
\* when it is a receive and a negative amount when it is a send.
C6_AmountSignMatchesDirection ==
  /\ \A i \in 1..Len(listed) : SignMatchesDirection(listed[i])
  /\ out.kind = "payment" => SignMatchesDirection(out.payment)

\* C7: the result of an on-chain send that succeeded has a negative amount of
\* the requested magnitude and a fee that is not negative.
C7_OnchainSendRoundTrip ==
  (out.kind = "sent" /\ SendMethod(Arg(2)) = "bitcoin") =>
    /\ out.response.AmountSats < 0
    /\ -out.response.AmountSats = ParseInt(Arg(4)).val
    /\ out.response.FeeSats >= 0

\* C8: the transactions command prints at most N rows for a requested N >= 0.
C8_AtMostNRows ==
  (out.kind = "transactions" /\ out.limit >= 0) => Len(out.rows) <= out.limit

\* C9: a ListPayments for a limit of 0..9 asks the backend for a page of at
\* least 100 payments, from offset 0.
C9_FloorOfPageSize ==
  \A i \in CallsOf("listPayments") :
    LimitOf(args) \in 0..9 =>
      /\ calls[i].req.Limit.hi > 0 \/ calls[i].req.Limit.lo >= 100
      /\ calls[i].req.Offset = Uint32(0)

\* C9, its case: the backend was asked for the page of `transactions 9`.
C9_Witness ==
  CallsOf("listPayments") # {} /\ LimitOf(args) = 9

\* C10: the balance returned is the primary balance, except when that is zero
\* and a token balance is positive: then it is a positive token balance.
C10_OnlyDocumentedFallback ==
  out.kind = "balance" =>
    \A i \in CallsOf("getInfo") :
      LET info == calls[i].response
          positive == {info.TokenBalances[t] : t \in {u \in DOMAIN info.TokenBalances :
                                                       info.TokenBalances[u] > 0}}
      IN IF info.BalanceSats = 0 /\ positive # {}
           THEN out.LightningBalanceSats \in positive
           ELSE out.LightningBalanceSats = info.BalanceSats

\* A connected process that has ended.
Ended == pc = "exited" /\ CallsOf("connect") # {} /\ calls[1].ok

\* C11: a lightning send invoked with an invoice and no amount argument is
\* prepared with the amount absent and, when the prepare succeeds, executed;
\* it does not end before the prepare because the amount is missing.
C11_AmountlessLightningSend ==
  (Ended /\ Len(args) = 4 /\ Arg(1) = "send" /\ SendMethod(Arg(2)) = "lightning") =>
    \E i \in CallsOf("prepareSendPayment") :
      /\ ~calls[i].req.Amount.set
      /\ calls[i].ok => CallsOf("sendPayment") # {}

\* C12: for the bitcoin and spark receive types the amount argument is
\* ignored: absent, zero, positive or not a number, the receive request is
\* issued, and when the backend accepts it the request returned has amount 0.
C12_AddressReceiveIgnoresAmount ==
  (Ended /\ Len(args) >= 3 /\ Arg(1) = "receive"
     /\ ReceiveMethod(Arg(2)) \in {"BitcoinAddress", "SparkAddress"}) =>
    /\ CallsOf("receivePayment") # {}
    /\ \A i \in CallsOf("receivePayment") :
         calls[i].ok => out.kind = "receive" /\ out.response.AmountSats = 0

\* C13: a lightning receive with amount 0 never succeeds; every successful
\* lightning receive request has an amount above 0.
C13_InvoiceAmountPositive ==
  \A i \in CallsOf("receivePayment") :
    (calls[i].ok /\ calls[i].req.method = "Bolt11Invoice" /\ out.kind = "receive")
      => out.response.AmountSats > 0

C15_NoConnectWithoutCredentials ==
  (env # NoEnv /\ (env.BREEZ_API_KEY = "" \/ env.BREEZ_MNEMONIC = "")) =>
    /\ pc = "exited"
    /\ exit = "fatal"
    /\ out = [kind |-> "error", msg |-> "Failed to load configuration"]
    /\ workdir = "untouched"
    /\ calls = <<>>
    /\ w = NoWallet
    /\ conn = "unconnected"

C15_Witness ==
  /\ env # NoEnv
  /\ env.BREEZ_API_KEY = "key"
  /\ env.BREEZ_MNEMONIC = ""
  /\ exit = "fatal"

\* C16: the backend is connected to Mainnet exactly when BREEZ_NETWORK is
\* "mainnet" or unset; with every other value it is connected to Regtest.
C16_MainnetOnlyWhenConfigured ==
  \A i \in CallsOf("connect") :
    calls[i].network = IF env.BREEZ_NETWORK \in {"", "mainnet"} THEN "Mainnet" ELSE "Regtest"

C16_Witness ==
  \E i \in CallsOf("connect") :
    calls[i].ok /\ calls[i].network = "Regtest" /\ env.BREEZ_NETWORK = "Mainnet"

\* C17: a process attempts the connect at most once and before every other
\* backend call; the other calls are issued only after the connect succeeded
\* and none after the disconnect; a connection that was disconnected is not
\* connected again.
C17_LifecycleInOrder ==
  /\ \A i \in 1..Len(calls) :
       /\ calls[i].op = "connect" <=> i = 1
       /\ i > 1 => calls[1].ok
       /\ calls[i].op = "disconnect" => i = Len(calls)
  /\ conn = "connected" => calls # <<>> /\ calls[1].ok
  /\ conn = "disconnected" => calls[Len(calls)] = [op |-> "disconnect", ok |-> TRUE]
  /\ conn = "unconnected" => Len(calls) <= 1

C17_Witness ==
  /\ conn = "disconnected"
  /\ Len(calls) > 2
  /\ calls[1].op = "connect"

\* C18: Close on a wallet that is already disconnected, or that was never
\* opened, issues no backend disconnect: once the backend has disconnected,
\* no further disconnect is asked of it, however often Close is called.
C18_CloseIdempotent ==
  /\ \A i \in CallsOf("disconnect") : calls[i].ok => i = Len(calls)
  /\ w.sdk = "nil" => CallsOf("disconnect") = {}

====
